---- MODULE Spec2Model ----
(***************************************************************************)
(* Model of src/deploy.py: main() is a straight-line orchestration of      *)
(* external commands.  Each external command is a step whose exit status   *)
(* is chosen nondeterministically (subject to what the tool can do in the  *)
(* current filesystem state); the model follows Python's control flow:     *)
(* run(..., check=True) raises on a non-zero status, a bare `except:`      *)
(* swallows it, sys.exit(1) and an uncaught exception end the process with *)
(* status 1, and a `finally:` block runs before a pending exception goes   *)
(* on.  Successive runs share the filesystem and the repository.           *)
(*                                                                         *)
(* Environment assumptions: every prompt is answered, the diff utility is  *)
(* installed (it always returns a status), and Python-level file I/O       *)
(* (chdir, makedirs, copy) does not raise.  The temporary location is      *)
(* touched by this program only, and is absent before the first run.       *)
(***************************************************************************)
EXTENDS Integers, Sequences, FiniteSets, TLC

VARIABLES
    pc,         \* position of the current run inside main()
    runs,       \* number of runs started so far
    git_branch, \* answer to the branch prompt (line 38)
    confirm,    \* answer to the confirmation prompt (line 47)
    log,        \* external commands issued by the current run, with status
    exitCode,   \* process exit status of the current run, -1 while running
    pending,    \* exception raised inside try: (lines 101-107), held by finally:
    diffrc,     \* diff.returncode of the current run, -1 before the comparison
    gate,       \* result of os.path.exists(tmp_dir) at line 100: "none"/"open"/"closed"
    snapshot,   \* the tree found at tmp_dir when line 100 looked
    acquired,   \* what `git worktree add` materialized in the current run
    build,      \* the tree _build/html
    tmp,        \* the directory /tmp/temp-ghp-check
    ghPages     \* the local branch gh-pages

vars == << pc, runs, git_branch, confirm, log, exitCode, pending, diffrc,
           gate, snapshot, acquired, build, tmp, ghPages >>

(* ------------------------------ bounds --------------------------------- *)

MaxRuns == 2

(* ----------------------------- directory trees ------------------------- *)

\* A tree maps each relative path it contains to the bytes (or the kind) there.
EmptyTree == << >>

Contents == {"v1", "x"}

\* The trees `jb build .` can leave in _build/html.
JbOutputs ==
    UNION { [S -> Contents] : S \in {{"index.html"}, {"index.html", "new.html"}} }

\* extra_dirs (its first entry; every entry is handled by the same loop body).
ExtraDirs == {"pdfs"}

\* Trees the hosting branch may hold before the first run.
HostedTrees ==
    JbOutputs \cup { ("pdfs" :> "dir") @@ t : t \in JbOutputs }

\* The checkout `git worktree add <dir> gh-pages` leaves in <dir>: the branch's
\* files plus the linked worktree's `.git` file.
WorktreeOf(t) == (".git" :> "gitdir") @@ t

\* The content `ghp-import -n` commits to the branch: the directory plus .nojekyll.
Published(t) == (".nojekyll" :> "empty") @@ t

\* `diff -r a b`: status 0 iff no path is only in one side and no common path differs.
OnlyIn(a, b) == { p \in DOMAIN a : p \notin DOMAIN b }

Differing(a, b) == { p \in DOMAIN a \cap DOMAIN b : a[p] # b[p] }

\* Variant: a comparison that only looks for what the first tree has and the
\* second lacks or changes.
DiffROneSided(a, b) ==
    IF OnlyIn(a, b) = {} /\ Differing(a, b) = {} THEN 0 ELSE 1

DiffR(a, b) ==
    IF OnlyIn(a, b) = {} /\ OnlyIn(b, a) = {} /\ Differing(a, b) = {} THEN 0 ELSE 1

(* ------------------------------ inputs --------------------------------- *)

\* Names the user may type at the branch prompt; "gone" is not a local branch.
Branches == {"main", "dev", "gone"}

LocalBranches == {"main", "dev"}

Confirms == {"confirm", "", "yes"}

Status == {0, 1}

(* ------------------------------ helpers -------------------------------- *)

\* run(cmd): the command is issued and its status recorded.
Ran(cmd, arg, rc) == Append(log, [cmd |-> cmd, arg |-> arg, rc |-> rc])

Issued(cmd) == { i \in 1..Len(log) : log[i].cmd = cmd }

Failed(cmd) == \E i \in Issued(cmd) : log[i].rc # 0

\* sys.exit(1), or an exception leaving main(): the process ends with status 1.
Exit1 == /\ pc' = "done"
         /\ exitCode' = 1

Goto(l) == /\ pc' = l
           /\ exitCode' = exitCode

Init ==
    /\ pc = "start"
    /\ runs = 1
    /\ git_branch = ""
    /\ confirm = ""
    /\ log = << >>
    /\ exitCode = -1
    /\ pending = FALSE
    /\ diffrc = -1
    /\ gate = "none"
    /\ snapshot = EmptyTree
    /\ acquired = [done |-> FALSE, tree |-> EmptyTree]
    /\ build = EmptyTree
    /\ tmp = [exists |-> FALSE, tree |-> EmptyTree]
    /\ ghPages \in { [exists |-> FALSE, tree |-> EmptyTree] }
                   \cup { [exists |-> TRUE, tree |-> t] : t \in HostedTrees }

(* ------------------------------ main() --------------------------------- *)

\* lines 37-38: current branch query (check=True, uncaught) and branch prompt
CurrentBranch ==
    /\ pc = "start"
    /\ \E rc \in Status :
         /\ log' = Ran("git branch --show-current", "", rc)
         /\ IF rc # 0
              THEN Exit1 /\ git_branch' = git_branch
              ELSE Goto("validate") /\ git_branch' \in Branches
    /\ UNCHANGED << snapshot, runs, confirm, pending, diffrc, gate, acquired, build, tmp, ghPages >>

\* lines 41-43 with branch_exists (18-24)
ValidateBranch ==
    /\ pc = "validate"
    /\ LET rc == IF git_branch \in LocalBranches THEN 0 ELSE 1 IN
         /\ log' = Ran("git rev-parse --verify", git_branch, rc)
         /\ IF rc # 0 THEN Exit1 ELSE Goto("warn")
    /\ UNCHANGED << snapshot, runs, git_branch, confirm, pending, diffrc, gate, acquired,
                    build, tmp, ghPages >>

\* Variant: any non-empty answer is taken as a confirmation.
WarnMainAnyAnswer ==
    /\ pc = "warn"
    /\ IF git_branch = "main"
         THEN /\ confirm' \in Confirms
              /\ IF confirm' = "" THEN Exit1 ELSE Goto("clean")
         ELSE /\ confirm' = confirm
              /\ Goto("clean")
    /\ UNCHANGED << snapshot, runs, git_branch, log, pending, diffrc, gate, acquired,
                    build, tmp, ghPages >>

\* lines 46-50
WarnMain ==
    /\ pc = "warn"
    /\ IF git_branch = "main"
         THEN /\ confirm' \in Confirms
              /\ IF confirm' # "confirm" THEN Exit1 ELSE Goto("clean")
         ELSE /\ confirm' = confirm
              /\ Goto("clean")
    /\ UNCHANGED << snapshot, runs, git_branch, log, pending, diffrc, gate, acquired,
                    build, tmp, ghPages >>

\* lines 53-57: jb clean, failure swallowed
Clean ==
    /\ pc = "clean"
    /\ \E rc \in Status :
         /\ log' = Ran("jb clean .", "", rc)
         /\ build' = IF rc = 0 THEN EmptyTree ELSE build
    /\ Goto("extclean")
    /\ UNCHANGED << snapshot, runs, git_branch, confirm, pending, diffrc, gate, acquired,
                    tmp, ghPages >>

\* lines 59-63: optional extended clean script, failure swallowed
ExtendedClean ==
    /\ pc = "extclean"
    /\ \E present \in BOOLEAN :
         IF present
           THEN \E rc \in Status : log' = Ran("bash/bash_clean.sh", "", rc)
           ELSE log' = log
    /\ Goto("build")
    /\ UNCHANGED << snapshot, runs, git_branch, confirm, pending, diffrc, gate, acquired,
                    build, tmp, ghPages >>

\* Variant: a build failure is only reported, as the clean failure is.
BuildFailureSwallowed ==
    /\ pc = "build"
    /\ \E rc \in Status :
         /\ log' = Ran("jb build .", "", rc)
         /\ build' \in IF rc # 0 THEN {build} ELSE JbOutputs
    /\ Goto("copy")
    /\ UNCHANGED << snapshot, runs, git_branch, confirm, pending, diffrc, gate, acquired,
                    tmp, ghPages >>

\* lines 65-70: jb build, failure ends the process
Build ==
    /\ pc = "build"
    /\ \E rc \in Status :
         /\ log' = Ran("jb build .", "", rc)
         /\ IF rc # 0
              THEN Exit1 /\ build' = build
              ELSE Goto("copy") /\ build' \in JbOutputs
    /\ UNCHANGED << snapshot, runs, git_branch, confirm, pending, diffrc, gate, acquired,
                    tmp, ghPages >>

\* lines 73-90: every extra directory that exists is merged into _build/html
CopyExtra ==
    /\ pc = "copy"
    /\ \E present \in SUBSET ExtraDirs :
         build' = [d \in present |-> "dir"] @@ build
    /\ log' = Ran("copy extra_dirs", "_build/html", 0)
    /\ Goto("acquire")
    /\ UNCHANGED << snapshot, runs, git_branch, confirm, pending, diffrc, gate, acquired,
                    tmp, ghPages >>

\* lines 94-98: git worktree add, failure swallowed.  The command can succeed only
\* when the branch exists and nothing is at the temporary location.
AcquireSnapshot ==
    /\ pc = "acquire"
    /\ \E rc \in Status :
         /\ rc = 0 => (ghPages.exists /\ ~tmp.exists)
         /\ log' = Ran("git worktree add", "gh-pages", rc)
         /\ IF rc = 0
              THEN /\ tmp' = [exists |-> TRUE, tree |-> WorktreeOf(ghPages.tree)]
                   /\ acquired' = [done |-> TRUE, tree |-> ghPages.tree]
              ELSE UNCHANGED << tmp, acquired >>
    /\ Goto("gate")
    /\ UNCHANGED << snapshot, runs, git_branch, confirm, pending, diffrc, gate, build, ghPages >>

\* Variant: the comparison is entered without looking at the temporary location.
GateAlwaysOpen ==
    /\ pc = "gate"
    /\ gate' = "open"
    /\ Goto("compare")
    /\ snapshot' = tmp.tree
    /\ UNCHANGED << runs, git_branch, confirm, log, pending, diffrc, acquired,
                    build, tmp, ghPages >>

\* line 100: os.path.exists(tmp_dir)
Gate ==
    /\ pc = "gate"
    /\ IF tmp.exists
         THEN gate' = "open" /\ Goto("compare")
         ELSE gate' = "closed" /\ Goto("plant")
    /\ snapshot' = tmp.tree
    /\ UNCHANGED << runs, git_branch, confirm, log, pending, diffrc, acquired,
                    build, tmp, ghPages >>

\* line 102: diff -r _build/html /tmp/temp-ghp-check
Compare ==
    /\ pc = "compare"
    /\ diffrc' = DiffR(build, tmp.tree)
    /\ log' = Ran("diff -r", "_build/html", diffrc')
    /\ Goto("decide")
    /\ UNCHANGED << snapshot, runs, git_branch, confirm, pending, gate, acquired, build,
                    tmp, ghPages >>

\* lines 103-107: skip on status 0, otherwise ghp-import (check=True).  A failing
\* ghp-import may already have committed to the local branch before its push failed.
\* (Status 0 needs a temporary location without a `.git` entry, which a linked
\* worktree always has.)
Decide ==
    /\ pc = "decide"
    /\ IF diffrc = 0
         THEN UNCHANGED << log, pending, ghPages >>
         ELSE \E rc \in Status :
                /\ log' = Ran("ghp-import", "_build/html", rc)
                /\ pending' = (rc # 0)
                /\ IF rc = 0
                     THEN ghPages' = [exists |-> TRUE, tree |-> Published(build)]
                     ELSE ghPages' \in {ghPages, [exists |-> TRUE, tree |-> Published(build)]}
    /\ Goto("remove")
    /\ UNCHANGED << snapshot, runs, git_branch, confirm, diffrc, gate, acquired, build, tmp >>

\* line 109, first statement of finally: git worktree remove --force (check=True).
\* A failure raises out of the finally block, so line 110 is not reached.
WorktreeRemove ==
    /\ pc = "remove"
    /\ \E rc \in Status :
         /\ log' = Ran("git worktree remove", "--force", rc)
         /\ IF rc = 0
              THEN /\ tmp' = [exists |-> FALSE, tree |-> EmptyTree]
                   /\ Goto("rmtree")
              ELSE /\ tmp' = tmp
                   /\ Exit1
    /\ UNCHANGED << snapshot, runs, git_branch, confirm, pending, diffrc, gate, acquired,
                    build, ghPages >>

\* Variant: the cleanup ends the exception raised by the publish command.
RmtreeSwallowsPending ==
    /\ pc = "rmtree"
    /\ tmp' = [exists |-> FALSE, tree |-> EmptyTree]
    /\ Goto("plant")
    /\ UNCHANGED << snapshot, runs, git_branch, confirm, log, pending, diffrc, gate,
                    acquired, build, ghPages >>

\* line 110 and the end of finally: rmtree, then a pending exception goes on
Rmtree ==
    /\ pc = "rmtree"
    /\ tmp' = [exists |-> FALSE, tree |-> EmptyTree]
    /\ IF pending THEN Exit1 ELSE Goto("plant")
    /\ UNCHANGED << snapshot, runs, git_branch, confirm, log, pending, diffrc, gate,
                    acquired, build, ghPages >>

\* lines 113-117: flick planting, failure swallowed
PlantFlicks ==
    /\ pc = "plant"
    /\ \E rc \in Status : log' = Ran("python python/plant_flicks_frac.py", "--percent 23", rc)
    /\ Goto("add")
    /\ UNCHANGED << snapshot, runs, git_branch, confirm, pending, diffrc, gate, acquired,
                    build, tmp, ghPages >>

\* line 121: git add . (check=True, uncaught)
GitAdd ==
    /\ pc = "add"
    /\ \E rc \in Status :
         /\ log' = Ran("git add .", "", rc)
         /\ IF rc # 0 THEN Exit1 ELSE Goto("commit")
    /\ UNCHANGED << snapshot, runs, git_branch, confirm, pending, diffrc, gate, acquired,
                    build, tmp, ghPages >>

\* lines 124-125, 128-129: git commit; any failure is swallowed and main() returns
Commit ==
    /\ pc = "commit"
    /\ \E rc \in Status :
         /\ log' = Ran("git commit", "", rc)
         /\ IF rc # 0
              THEN pc' = "done" /\ exitCode' = 0
              ELSE Goto("push")
    /\ UNCHANGED << snapshot, runs, git_branch, confirm, pending, diffrc, gate, acquired,
                    build, tmp, ghPages >>

\* lines 126-129: git push inside the same try; any failure is swallowed
Push ==
    /\ pc = "push"
    /\ \E rc \in Status : log' = Ran("git push", git_branch, rc)
    /\ pc' = "done"
    /\ exitCode' = 0
    /\ UNCHANGED << snapshot, runs, git_branch, confirm, pending, diffrc, gate, acquired,
                    build, tmp, ghPages >>

\* The script is started again; the filesystem and the repository are kept.
NextRun ==
    /\ pc = "done"
    /\ runs < MaxRuns
    /\ runs' = runs + 1
    /\ pc' = "start"
    /\ git_branch' = ""
    /\ confirm' = ""
    /\ log' = << >>
    /\ exitCode' = -1
    /\ pending' = FALSE
    /\ diffrc' = -1
    /\ gate' = "none"
    /\ snapshot' = EmptyTree
    /\ acquired' = [done |-> FALSE, tree |-> EmptyTree]
    /\ UNCHANGED << build, tmp, ghPages >>

Next ==
    \/ CurrentBranch
    \/ ValidateBranch
    \/ WarnMain
    \/ Clean
    \/ ExtendedClean
    \/ Build
    \/ CopyExtra
    \/ AcquireSnapshot
    \/ Gate
    \/ Compare
    \/ Decide
    \/ WorktreeRemove
    \/ Rmtree
    \/ PlantFlicks
    \/ GitAdd
    \/ Commit
    \/ Push
    \/ NextRun

Spec == Init /\ [][Next]_vars

(* ------------------------------ properties ----------------------------- *)

Count(cmd) == Cardinality(Issued(cmd))

\* Positions after the change-detection/publish procedure (lines 94-110) has ended.
AfterProcedure == {"plant", "add", "commit", "push", "done"}

\* Positions after the decision of lines 103-107 has been taken.
AfterDecision == {"remove", "rmtree"} \cup AfterProcedure

\* The confirmation prompt of line 47 was answered with something else than `confirm`.
Declined ==
    /\ git_branch = "main"
    /\ pc \notin {"start", "validate", "warn"}
    /\ confirm # "confirm"

\* C1: whenever the temporary location existed at the gate, once the procedure has
\* ended (normally or with an error) `git worktree remove` has been issued and the
\* temporary directory is absent.
C1_SnapshotAlwaysRemoved ==
    (gate = "open" /\ pc \in AfterProcedure) =>
        (Issued("git worktree remove") # {} /\ ~tmp.exists)

\* C2: when the hosting branch holds exactly the paths and bytes of the build tree and
\* `git worktree add` materialized it in this run, diff reports no difference and
\* ghp-import is not invoked.
C2_IdenticalTreesSkipPublish ==
    (acquired.done /\ acquired.tree = build /\ diffrc # -1) =>
        (diffrc = 0 /\ Issued("ghp-import") = {})

\* C3: when the temporary location exists at the gate and the build tree differs from
\* what is there, diff reports a difference and ghp-import is invoked exactly once in
\* the run, with _build/html as its argument; it is never invoked more than once.
C3_DifferencePublishedOnce ==
    /\ Count("ghp-import") <= 1
    /\ \A i \in Issued("ghp-import") : log[i].arg = "_build/html"
    /\ (gate = "open" /\ build # snapshot /\ diffrc # -1) => diffrc # 0
    /\ (gate = "open" /\ build # snapshot /\ pc \in AfterDecision) =>
           Count("ghp-import") = 1

C3_Witness ==
    /\ pc = "done"
    /\ exitCode = 0
    /\ gate = "open"
    /\ build = [p \in {"index.html", "new.html"} |-> IF p = "index.html" THEN "v1" ELSE "x"]
    /\ acquired.done
    /\ acquired.tree = [p \in {"index.html"} |-> "v1"]
    /\ Count("ghp-import") = 1

\* C4: when ghp-import fails, the worktree removal and the deletion of the temporary
\* directory complete, and the run then ends with the failure propagated.
C4_PublishFailureCleanedThenPropagated ==
    (Failed("ghp-import") /\ pc \in AfterProcedure) =>
        /\ pc = "done"
        /\ exitCode = 1
        /\ Issued("git worktree remove") # {}
        /\ ~Failed("git worktree remove")
        /\ ~tmp.exists

\* C5: when the branch gh-pages does not exist, the worktree acquisition fails, no
\* error is raised, no comparison and no publish happen, and the run goes on to the
\* flick planting, git add, commit and push.
C5_NoHostingBranchNoOp ==
    (~ghPages.exists /\ Issued("git worktree add") # {}) =>
        /\ Failed("git worktree add")
        /\ ~pending
        /\ gate # "open"
        /\ Issued("diff -r") = {}
        /\ Issued("ghp-import") = {}
        /\ Issued("git worktree remove") = {}
        /\ pc \in {"gate"} \cup AfterProcedure
        /\ pc \in {"add", "commit", "push", "done"} =>
               Issued("python python/plant_flicks_frac.py") # {}
        /\ pc \in {"commit", "push", "done"} => Issued("git add .") # {}
        /\ pc \in {"push", "done"} /\ ~Failed("git add .") => Issued("git commit") # {}
        /\ exitCode = 1 => Failed("git add .")

C5_Witness ==
    /\ ~ghPages.exists
    /\ Failed("git worktree add")
    /\ pc = "done"
    /\ exitCode = 0
    /\ Issued("git push") # {}

\* C6: when `jb build .` fails the process exits with status 1 at once: it is the last
\* command of the run, and no copy, worktree, diff, publish, add, commit or push follows.
C6_BuildFailureStops ==
    Failed("jb build .") =>
        /\ pc = "done"
        /\ exitCode = 1
        /\ log[Len(log)].cmd = "jb build ."
        /\ \A c \in {"copy extra_dirs", "git worktree add", "diff -r", "ghp-import",
                     "git worktree remove", "git add .", "git commit", "git push"} :
               Issued(c) = {}

C6_Witness ==
    /\ Failed("jb build .")
    /\ pc = "done"
    /\ Issued("jb clean .") # {}

\* C7: when the branch is `main` and the confirmation is not the literal `confirm`, the
\* process exits with status 1 having run nothing but the initial branch checks.
C7_DeclinedMainStops ==
    Declined =>
        /\ pc = "done"
        /\ exitCode = 1
        /\ \A i \in 1..Len(log) :
               log[i].cmd \in {"git branch --show-current", "git rev-parse --verify"}

C7_Witness ==
    /\ Declined
    /\ confirm = "yes"
    /\ pc = "done"

\* C8 (as stated): the exit status is 1 exactly when the branch does not exist, the
\* confirmation is declined or the build fails, and 0 in every other finished run,
\* whatever the commands after the branch prompt return.
C8_ExitOneOnlyInThreeCases ==
    (pc = "done" /\ ~Failed("git branch --show-current")) =>
        /\ exitCode \in {0, 1}
        /\ exitCode = 1 <=>
               \/ Failed("git rev-parse --verify")
               \/ Declined
               \/ Failed("jb build .")

\* C8 (amended): the exit status is 1 exactly when the branch does not exist, the
\* confirmation is declined, the build fails, or a failure of `git branch
\* --show-current`, ghp-import, `git worktree remove` or `git add .` leaves main()
\* uncaught; failures of the clean commands, `git worktree add`, the flick planting,
\* `git commit` and `git push` are swallowed, and every other finished run ends with 0.
C8_ExitCodes ==
    pc = "done" =>
        /\ exitCode \in {0, 1}
        /\ exitCode = 1 <=>
               \/ Failed("git rev-parse --verify")
               \/ Declined
               \/ Failed("jb build .")
               \/ Failed("git branch --show-current")
               \/ Failed("ghp-import")
               \/ Failed("git worktree remove")
               \/ Failed("git add .")

C8_Witness ==
    /\ pc = "done"
    /\ exitCode = 1
    /\ Failed("ghp-import")
    /\ ~Failed("git worktree remove")
    /\ ~tmp.exists

\* C9: in the commit and push stage only a failing commit is caught; a `git push` that
\* fails after a successful commit is propagated, so the run does not end normally.
C9_PushFailurePropagates ==
    (pc = "done" /\ Failed("git push")) => exitCode = 1

\* C10: over successive runs, whenever the comparison executes, the temporary location
\* holds what the worktree acquisition of the same run materialized, never a directory
\* left behind by an earlier run.
C10_SnapshotIsFresh ==
    Issued("diff -r") # {} =>
        (acquired.done /\ snapshot = WorktreeOf(acquired.tree))

====
